---- MODULE Spec2Model ----
(***************************************************************************)
(* A model of requests-openapi-client: the name casing of util.py, the     *)
(* codec and the model registry of schemas.py, and the operation invoker   *)
(* of core.py (Operation.__init__ and the closure built by _gen_call).     *)
(*                                                                         *)
(* Identifiers and JSON keys are sequences of one-character strings, so    *)
(* that camel_to_snake and the "_" prefix handling of the invoker are      *)
(* computed on the characters, as the code does.                           *)
(*                                                                         *)
(* Python values are tagged records:                                       *)
(*   [k |-> "none"]                       None / JSON null                 *)
(*   [k |-> "MISSING"]                    dataclasses.MISSING              *)
(*   [k |-> "str",  s |-> <<chunks>>]     str (a sequence of chunks)       *)
(*   [k |-> "num",  n |-> "0"]            int / float                      *)
(*   [k |-> "bool", b |-> "false"]        bool                             *)
(*   [k |-> "datetime", t |-> .., tz |-> ..]  datetime.datetime            *)
(*   [k |-> "list", items |-> <<..>>]     list                             *)
(*   [k |-> "dict", f |-> [key |-> value]]    dict / JSON object           *)
(*   [k |-> "dto",  cls |-> "Name", f |-> [field |-> value]]  a BaseDto    *)
(* An exception is [k |-> "raise", exc |-> class, msg |-> text].           *)
(***************************************************************************)
EXTENDS Integers, Sequences, FiniteSets, TLC

\* F(e), with e evaluated once, before F: Python evaluates an expression when
\* it binds it to a name, and so does Let.
Let(e, F(_)) == CHOOSE r \in {F(x) : x \in {e}} : TRUE

(***************************************************************************)
(* util.py: camel_to_snake                                                 *)
(***************************************************************************)
UpperSeq ==
  <<"A","B","C","D","E","F","G","H","I","J","K","L","M",
    "N","O","P","Q","R","S","T","U","V","W","X","Y","Z">>

LowerSeq ==
  <<"a","b","c","d","e","f","g","h","i","j","k","l","m",
    "n","o","p","q","r","s","t","u","v","w","x","y","z">>

DigitSeq == <<"0","1","2","3","4","5","6","7","8","9">>

Range(s) == {s[i] : i \in DOMAIN s}

IsUpper(c) == c \in Range(UpperSeq)

IsLower(c) == c \in Range(LowerSeq)

IsDigit(c) == c \in Range(DigitSeq)

\* str.lower() on one character
LowerChar(c) ==
  IF IsUpper(c) THEN LowerSeq[CHOOSE i \in DOMAIN UpperSeq : UpperSeq[i] = c] ELSE c

\* str.replace(old, new) for one-character old and new
ReplaceChar(s, old, new) == [i \in DOMAIN s |-> IF s[i] = old THEN new ELSE s[i]]

\* the last index of the run of lower-case letters of s that starts at j
RECURSIVE LowerRunEnd(_, _)
LowerRunEnd(s, j) ==
  IF j + 1 <= Len(s) /\ IsLower(s[j + 1]) THEN LowerRunEnd(s, j + 1) ELSE j

\* CAMEL_NAME_RE.sub(r'\1_\2', s), scanning s from index i:
\* '(.)([A-Z][a-z]+)' matches left to right, without overlap, greedily.
RECURSIVE SubCamelName(_, _)
SubCamelName(s, i) ==
  IF i > Len(s) THEN <<>>
  ELSE IF i + 2 <= Len(s) /\ IsUpper(s[i + 1]) /\ IsLower(s[i + 2])
       THEN LET e == LowerRunEnd(s, i + 2)
            IN  <<s[i], "_">> \o SubSeq(s, i + 1, e) \o SubCamelName(s, e + 1)
       ELSE <<s[i]>> \o SubCamelName(s, i + 1)

\* CAMEL_RE.sub(r'\1_\2', s), scanning s from index i: '([a-z0-9])([A-Z])'
RECURSIVE SubCamel(_, _)
SubCamel(s, i) ==
  IF i > Len(s) THEN <<>>
  ELSE IF i + 1 <= Len(s) /\ (IsLower(s[i]) \/ IsDigit(s[i])) /\ IsUpper(s[i + 1])
       THEN <<s[i], "_", s[i + 1]>> \o SubCamel(s, i + 2)
       ELSE <<s[i]>> \o SubCamel(s, i + 1)

\* MULTI_UNDER_RE.sub('_', s): every run of two or more "_" becomes one "_"
RECURSIVE SubMultiUnder(_, _)
SubMultiUnder(s, i) ==
  IF i > Len(s) THEN <<>>
  ELSE IF s[i] = "_" /\ i > 1 /\ s[i - 1] = "_" THEN SubMultiUnder(s, i + 1)
       ELSE <<s[i]>> \o SubMultiUnder(s, i + 1)

\* str.lower()
Lower(s) == [i \in DOMAIN s |-> LowerChar(s[i])]

camel_to_snake(name) ==
  Let(ReplaceChar(name, " ", "_"), LAMBDA n1 :
  Let(SubCamelName(n1, 1), LAMBDA n2 :
  Let(SubCamel(n2, 1), LAMBDA n3 :
  Let(ReplaceChar(Lower(n3), "-", "_"), LAMBDA n4 :
  SubMultiUnder(n4, 1)))))

(***************************************************************************)
(* Python values and their truth value                                     *)
(***************************************************************************)
None == [k |-> "none"]

MISSING == [k |-> "MISSING"]

Str(chunks) == [k |-> "str", s |-> chunks]

Num(n) == [k |-> "num", n |-> n]

Bool(b) == [k |-> "bool", b |-> b]

List(items) == [k |-> "list", items |-> items]

Dict(f) == [k |-> "dict", f |-> f]

Dto(cls, f) == [k |-> "dto", cls |-> cls, f |-> f]

DateTime(t, tz) == [k |-> "datetime", t |-> t, tz |-> tz]

Raise(exc, msg) == [k |-> "raise", exc |-> exc, msg |-> msg]

IsRaise(v) == "k" \in DOMAIN v /\ v.k = "raise"

EmptyDict == Dict([x \in {} |-> None])

\* bool(v): what "if v:" and "not v" test
Truthy(v) ==
  CASE v.k = "none" -> FALSE
    [] v.k = "str"  -> v.s # <<>>
    [] v.k = "num"  -> v.n # "0"
    [] v.k = "bool" -> v.b = "true"
    [] v.k = "list" -> v.items # <<>>
    [] v.k = "dict" -> DOMAIN v.f # {}
    [] OTHER        -> TRUE

\* the first exception of a sequence of results, evaluated in order
FirstRaise(rs) ==
  LET bad == {i \in DOMAIN rs : IsRaise(rs[i])}
  IN  rs[CHOOSE i \in bad : \A j \in bad : i <= j]

HasRaise(rs) == \E i \in DOMAIN rs : IsRaise(rs[i])

(***************************************************************************)
(* Type descriptors                                                        *)
(*   [t |-> "builtin", py |-> "float" | "bool" | "str" | "object" | "list"]*)
(*   [t |-> "datetime"]                      datetime.datetime             *)
(*   [t |-> "List", item |-> T]              typing.List[T]                *)
(*   [t |-> "dto", cls |-> Name]             a BaseDto subclass            *)
(*   [t |-> "TaggedUnion", discriminator_field, discriminator_mapping]     *)
(*   [t |-> "Any"]                           typing.Any                    *)
(*   [t |-> "NoneType"]                      the value None used as a type *)
(*   [t |-> "ExceptionInstance"]             an Exception object as a type *)
(***************************************************************************)
Builtin(py) == [t |-> "builtin", py |-> py]

DateTimeType == [t |-> "datetime"]

ListOf(item) == [t |-> "List", item |-> item]

DtoType(cls) == [t |-> "dto", cls |-> cls]

AnyType == [t |-> "Any"]

\* TaggedUnion.allowed_types
allowed_types(u) == {u.discriminator_mapping[tag] : tag \in DOMAIN u.discriminator_mapping}

(***************************************************************************)
(* schemas.py: the codec.  M is the table of the realized record classes:  *)
(* M[cls] = [fields |-> <<[name, type, default, default_factory]>>,        *)
(*           name_map, reverse_name_map, required_fields, nullable_fields] *)
(***************************************************************************)
\* datetime.isoformat() followed by .replace("+00:00", "Z")
IsoFormatZ(d) ==
  IF d.tz = "naive" THEN Str(<<d.t>>)
  ELSE IF d.tz = "+00:00" THEN Str(<<d.t, "Z">>)
  ELSE Str(<<d.t, d.tz>>)

\* dateutil.parser.parse on the strings isoformat produces
DateutilParse(v) ==
  IF Len(v.s) = 1 THEN DateTime(v.s[1], "naive")
  ELSE IF Len(v.s) = 2
       THEN DateTime(v.s[1], IF v.s[2] = "Z" THEN "+00:00" ELSE v.s[2])
       ELSE Raise("ParserError", "unknown string format")

RECURSIVE serialize_as(_, _, _, _)
RECURSIVE BaseDto_serialize(_, _, _)
\* serialization that emits every field, None or not
BaseDto_serialize_all_fields(M, self, use_python_names) ==
  LET c == M[self.cls]
      raw_name(i) == IF use_python_names THEN c.fields[i].name
                     ELSE c.name_map[c.fields[i].name]
      last(key) == CHOOSE i \in DOMAIN c.fields :
                     /\ raw_name(i) = key
                     /\ \A j \in DOMAIN c.fields : raw_name(j) = key => j <= i
  IN  Dict([key \in {raw_name(i) : i \in DOMAIN c.fields} |->
              serialize_as(M, self.f[c.fields[last(key)].name],
                           c.fields[last(key)].type, use_python_names)])

BaseDto_serialize(M, self, use_python_names) ==
  LET c == M[self.cls]
      kept == {i \in DOMAIN c.fields :
                 ~ ( self.f[c.fields[i].name] = None
                     /\ c.fields[i].name \notin c.required_fields
                     /\ c.fields[i].name \notin c.nullable_fields )}
      raw_name(i) == IF use_python_names THEN c.fields[i].name
                     ELSE c.name_map[c.fields[i].name]
      \* a later field overwrites an earlier one under the same key
      last(key) == CHOOSE i \in kept :
                     /\ raw_name(i) = key
                     /\ \A j \in kept : raw_name(j) = key => j <= i
  IN  Dict([key \in {raw_name(i) : i \in kept} |->
              serialize_as(M, self.f[c.fields[last(key)].name],
                           c.fields[last(key)].type, use_python_names)])

serialize_as(M, data, data_type, use_python_names) ==
  IF data = None THEN None
  ELSE IF data_type.t = "dto" /\ data.k = "dto"
       THEN BaseDto_serialize(M, data, use_python_names)
  ELSE IF data_type.t = "TaggedUnion" /\ data.k = "dto"
          /\ DtoType(data.cls) \in allowed_types(data_type)
       THEN BaseDto_serialize(M, data, use_python_names)
  ELSE IF data_type.t = "List" /\ data.k = "list"
       THEN List([i \in DOMAIN data.items |->
                    serialize_as(M, data.items[i], data_type.item, use_python_names)])
  ELSE IF data_type.t = "datetime" /\ data.k = "datetime"
       THEN IsoFormatZ(data)
  ELSE data

RECURSIVE deserialize_as(_, _, _)
RECURSIVE BaseDto_deserialize(_, _, _)
RECURSIVE TaggedUnion_deserialize(_, _, _)
BaseDto_deserialize(M, cls, data) ==
  IF data.k # "dict" THEN Raise("TypeError", "data is not a mapping")
  ELSE
  LET c == M[cls]
      init(i) ==
        LET field == c.fields[i]
            raw_name == c.name_map[field.name]
        IN  IF raw_name \in DOMAIN data.f
              THEN deserialize_as(M, data.f[raw_name], field.type)
            ELSE IF field.default # None THEN field.default
            ELSE IF field.default_factory # MISSING THEN field.default_factory
            ELSE None
  IN  Let([i \in DOMAIN c.fields |-> init(i)], LAMBDA results :
        IF HasRaise(results) THEN FirstRaise(results)
        ELSE Dto(cls, [n \in {c.fields[i].name : i \in DOMAIN c.fields} |->
                         results[CHOOSE i \in DOMAIN c.fields : c.fields[i].name = n]]))

TaggedUnion_deserialize(M, self, data) ==
  IF data.k # "dict" THEN Raise("AttributeError", "no attribute get")
  ELSE
  LET type_value == IF self.discriminator_field \in DOMAIN data.f
                    THEN data.f[self.discriminator_field] ELSE None
  IN  IF ~ Truthy(type_value)
        THEN Raise("Exception", "discriminator mapping field not found on union object")
      ELSE IF type_value \notin DOMAIN self.discriminator_mapping
        THEN Raise("Exception", "discriminator value not in union")
      ELSE deserialize_as(M, data, self.discriminator_mapping[type_value])

deserialize_as(M, data, data_type) ==
  IF data = None THEN None
  ELSE IF data_type.t = "dto" THEN BaseDto_deserialize(M, data_type.cls, data)
  ELSE IF data_type.t = "TaggedUnion" THEN TaggedUnion_deserialize(M, data_type, data)
  ELSE IF data_type.t = "List" /\ data.k = "list"
       THEN Let([i \in DOMAIN data.items |->
                   deserialize_as(M, data.items[i], data_type.item)],
                LAMBDA results :
                  IF HasRaise(results) THEN FirstRaise(results) ELSE List(results))
  ELSE IF data_type.t = "datetime" /\ data.k = "str"
       THEN DateutilParse(data)
  ELSE data

\* A call that passes the keyword arguments kw to a function that declares none
\* of them: Python raises TypeError before the body runs.
UnexpectedKeyword == Raise("TypeError", "got an unexpected keyword argument")

NoKeywords == [x \in {} |-> TRUE]

\* cls.deserialize(data, **kw)
BaseDto_deserialize_call(M, cls, data, kw) ==
  IF DOMAIN kw # {} THEN UnexpectedKeyword ELSE BaseDto_deserialize(M, cls, data)

\* deserialize_as(data, data_type, **kw)
deserialize_as_call(M, data, data_type, kw) ==
  IF DOMAIN kw # {} THEN UnexpectedKeyword ELSE deserialize_as(M, data, data_type)

\* union.deserialize(data, **kw)
TaggedUnion_deserialize_call(M, self, data, kw) ==
  IF DOMAIN kw # {} THEN UnexpectedKeyword ELSE TaggedUnion_deserialize(M, self, data)

(***************************************************************************)
(* schemas.py: type resolution and the model registry.                     *)
(*                                                                         *)
(* A schema fragment is a record holding the keys the document gives it:   *)
(*   ref |-> [doc, section, name]   "$ref": doc "#" is this document, and  *)
(*                                  section "schemas" is                   *)
(*                                  "#/components/schemas/<name>"          *)
(*   allOf, oneOf |-> <<fragments>>                                        *)
(*   discriminator |-> a record with propertyName and mapping, if given    *)
(*   type, format, items, nullable, default                                *)
(*   properties |-> <<[prop, schema]>>, required |-> a set of names        *)
(* full_spec.schemas is components.schemas, in document order:             *)
(*   <<[name |-> .., desc |-> fragment]>>.                                 *)
(***************************************************************************)
Has(schema, key) == key \in DOMAIN schema

Ref(name) == [ref |-> [doc |-> "#", section |-> "schemas", name |-> name]]

TYPE_EQUIVALENTS ==
  [number |-> Builtin("float"), object |-> Builtin("object"),
   boolean |-> Builtin("bool"), array |-> Builtin("list"), string |-> Builtin("str")]

\* the depth at which the interpreter gives up a recursion (RecursionError)
RecursionLimit == 6

UpperChar(c) ==
  IF IsLower(c) THEN UpperSeq[CHOOSE i \in DOMAIN LowerSeq : LowerSeq[i] = c] ELSE c

\* str.replace(old, "") for a one-character old
RECURSIVE RemoveChar(_, _)
RemoveChar(s, old) ==
  IF s = <<>> THEN <<>>
  ELSE IF Head(s) = old THEN RemoveChar(Tail(s), old)
       ELSE <<Head(s)>> \o RemoveChar(Tail(s), old)

format_schema_name(name) ==
  RemoveChar(RemoveChar(<<UpperChar(name[1])>> \o Tail(name), "-"), " ")

\* jsonpointer.resolve_pointer(full_spec, ref[1:])
resolve_pointer(full_spec, ref) ==
  LET hits == {i \in DOMAIN full_spec.schemas :
                 ref.section = "schemas" /\ full_spec.schemas[i].name = ref.name}
  IN  IF hits = {} THEN Raise("JsonPointerException", "member not found")
      ELSE full_spec.schemas[CHOOSE i \in hits : \A j \in hits : j <= i].desc

RECURSIVE type_for_schema(_, _, _, _)
RECURSIVE TaggedUnion_init(_, _, _, _, _)
\* resolution that answers a reference to an object schema by resolving the
\* properties of that schema
type_for_schema_descending(schema, full_spec, realized_types, depth) ==
  IF depth = 0 THEN Raise("RecursionError", "maximum recursion depth exceeded")
  ELSE IF Has(schema, "ref") THEN
    Let(resolve_pointer(full_spec, schema.ref), LAMBDA target :
          IF IsRaise(target) THEN target
          ELSE type_for_schema(target, full_spec, realized_types, depth - 1))
  ELSE IF Has(schema, "properties") THEN
    Let([i \in DOMAIN schema.properties |->
           type_for_schema(schema.properties[i].schema, full_spec, realized_types,
                           depth - 1)],
        LAMBDA types : IF HasRaise(types) THEN FirstRaise(types)
                       ELSE Builtin("object"))
  ELSE Builtin("object")

TaggedUnion_init(type_options, discriminator, full_spec, realized_types, depth) ==
  LET discriminator_field ==
        IF Has(discriminator, "propertyName") THEN discriminator.propertyName ELSE <<>>
      mapping ==
        IF Has(discriminator, "mapping") THEN discriminator.mapping ELSE <<>>
      option_ref(i) == IF Has(type_options[i], "ref") THEN type_options[i].ref ELSE None
      refs == {option_ref(i) : i \in DOMAIN type_options}
      \* a later option overwrites an earlier one under the same ref
      last(r) == CHOOSE i \in DOMAIN type_options :
                   /\ option_ref(i) = r
                   /\ \A j \in DOMAIN type_options : option_ref(j) = r => j <= i
  IN  IF discriminator_field = <<>> \/ DOMAIN mapping = {}
        THEN Raise("Exception", "discriminator property name and mapping are required")
      ELSE
        Let([i \in DOMAIN type_options |->
               type_for_schema(type_options[i], full_spec, realized_types, depth)],
            LAMBDA resolved :
              IF HasRaise(resolved) THEN FirstRaise(resolved)
              ELSE IF \E tag \in DOMAIN mapping : mapping[tag] \notin refs
                THEN Raise("KeyError", "mapping ref is not one of the oneOf refs")
              ELSE [t |-> "TaggedUnion",
                    discriminator_field |-> discriminator_field,
                    discriminator_mapping |->
                      [tag \in DOMAIN mapping |-> resolved[last(mapping[tag])]]])

type_for_schema(schema, full_spec, realized_types, depth) ==
  IF depth = 0 THEN Raise("RecursionError", "maximum recursion depth exceeded")
  ELSE IF Has(schema, "ref") THEN
    IF schema.ref.doc # "#" THEN Raise("Exception", "only '#' refs are supported")
    ELSE IF /\ schema.ref.section = "schemas"
            /\ format_schema_name(schema.ref.name) \in DOMAIN realized_types
      THEN realized_types[format_schema_name(schema.ref.name)]
    ELSE Let(resolve_pointer(full_spec, schema.ref), LAMBDA target :
               IF IsRaise(target) THEN target
               ELSE type_for_schema(target, full_spec, realized_types, depth - 1))
  ELSE IF Has(schema, "allOf") THEN
    IF Len(schema.allOf) = 1
      THEN type_for_schema(schema.allOf[1], full_spec, realized_types, depth - 1)
      ELSE Builtin("object")
  ELSE IF Has(schema, "oneOf") THEN
    IF Len(schema.oneOf) = 1
      THEN type_for_schema(schema.oneOf[1], full_spec, realized_types, depth - 1)
    ELSE IF ~ Has(schema, "discriminator") \/ DOMAIN schema.discriminator = {}
      THEN [t |-> "ExceptionInstance"]
    ELSE TaggedUnion_init(schema.oneOf, schema.discriminator, full_spec,
                          realized_types, depth - 1)
  ELSE IF ~ Has(schema, "type") THEN Raise("Exception", "schemas must have types or refs")
  ELSE IF schema.type = "array" THEN
    IF Has(schema, "items")
      THEN Let(type_for_schema(schema.items, full_spec, realized_types, depth - 1),
               LAMBDA item : IF IsRaise(item) THEN item ELSE ListOf(item))
      ELSE Builtin("list")
  ELSE IF schema.type = "string" /\ Has(schema, "format") /\ schema.format = "date-time"
    THEN DateTimeType
  ELSE IF schema.type \in DOMAIN TYPE_EQUIVALENTS THEN TYPE_EQUIVALENTS[schema.type]
  ELSE [t |-> "NoneType"]

\* a finished table of classes, told apart from an exception
Built(models) == [k |-> "models", m |-> models]

\* what a "$ref" to a realized class resolves to: the class itself
RealizedTypes(models) == [n \in DOMAIN models |-> DtoType(n)]

IsObjectSchema(desc) == Has(desc, "type") /\ desc.type = "object"

Properties(desc) == IF Has(desc, "properties") THEN desc.properties ELSE <<>>

\* the class of one object schema, as the first pass of add_types_to_module makes it
FirstPassModel(desc, spec) ==
  LET props == Properties(desc)
      source_required == IF Has(desc, "required") THEN desc.required ELSE {}
      nullable(i) == Has(props[i].schema, "nullable") /\ props[i].schema.nullable
  IN  Let([i \in DOMAIN props |-> camel_to_snake(props[i].prop)], LAMBDA snake :
      Let([i \in DOMAIN props |->
             type_for_schema(props[i].schema, spec, <<>>, RecursionLimit)],
          LAMBDA types :
        IF HasRaise(types) THEN FirstRaise(types)
        ELSE IF \E i, j \in DOMAIN props : i # j /\ snake[i] = snake[j]
          THEN Raise("TypeError", "Field name duplicated")
        ELSE
          [fields |-> [i \in DOMAIN props |->
                         [name |-> snake[i], type |-> types[i],
                          default |-> IF Has(props[i].schema, "default")
                                      THEN props[i].schema.default ELSE None,
                          default_factory |-> MISSING]],
           name_map |-> [n \in Range(snake) |->
                           props[CHOOSE i \in DOMAIN props : snake[i] = n].prop],
           reverse_name_map |->
             [w \in {props[i].prop : i \in DOMAIN props} |->
                snake[CHOOSE i \in DOMAIN props : props[i].prop = w]],
           required_fields |-> {snake[i] : i \in {j \in DOMAIN props :
                                                    props[j].prop \in source_required}},
           nullable_fields |-> {snake[i] : i \in {j \in DOMAIN props : nullable(j)}}]))

\* models after the first pass over schemas[i..]; an exception ends the pass
RECURSIVE FirstPass(_, _, _)
FirstPass(spec, i, models) ==
  IF i > Len(spec.schemas) THEN Built(models)
  ELSE IF ~ IsObjectSchema(spec.schemas[i].desc) THEN FirstPass(spec, i + 1, models)
  ELSE Let(format_schema_name(spec.schemas[i].name), LAMBDA name :
       Let(FirstPassModel(spec.schemas[i].desc, spec), LAMBDA model :
         IF IsRaise(model) THEN model
         ELSE Let([n \in DOMAIN models \cup {name} |->
                     IF n = name THEN model ELSE models[n]],
                  LAMBDA registered : FirstPass(spec, i + 1, registered))))

update_field_type(model, field_name, new_type) ==
  [model EXCEPT !.fields =
     [i \in DOMAIN model.fields |->
        IF model.fields[i].name = field_name
          THEN [model.fields[i] EXCEPT !.type = new_type]
          ELSE model.fields[i]]]

\* the second pass over the properties props[j..] of the class called name
RECURSIVE SecondPassProps(_, _, _, _, _)
SecondPassProps(spec, name, props, j, models) ==
  IF j > Len(props) THEN Built(models)
  ELSE Let(camel_to_snake(props[j].prop), LAMBDA snake_prop :
       Let(type_for_schema(props[j].schema, spec, RealizedTypes(models), RecursionLimit),
           LAMBDA realized_type :
         LET at == {i \in DOMAIN models[name].fields :
                      models[name].fields[i].name = snake_prop}
         IN  IF IsRaise(realized_type) THEN realized_type
             ELSE IF at = {} THEN Raise("KeyError", "no such annotation")
             ELSE IF realized_type # models[name].fields[CHOOSE i \in at : TRUE].type
               THEN Let([models EXCEPT ![name] =
                           update_field_type(models[name], snake_prop, realized_type)],
                        LAMBDA updated : SecondPassProps(spec, name, props, j + 1, updated))
             ELSE SecondPassProps(spec, name, props, j + 1, models)))

\* a build that stops after the first pass
SecondPass_skipped(spec, i, models) == Built(models)

RECURSIVE SecondPass(_, _, _)
SecondPass(spec, i, models) ==
  IF i > Len(spec.schemas) THEN Built(models)
  ELSE IF ~ IsObjectSchema(spec.schemas[i].desc) THEN SecondPass(spec, i + 1, models)
  ELSE Let(format_schema_name(spec.schemas[i].name), LAMBDA name :
       Let(SecondPassProps(spec, name, Properties(spec.schemas[i].desc), 1, models),
           LAMBDA next : IF IsRaise(next) THEN next ELSE SecondPass(spec, i + 1, next.m)))

\* Built(the table of realized classes), or the exception that ended the build
add_types_to_module(spec) ==
  Let(FirstPass(spec, 1, <<>>), LAMBDA models :
    IF IsRaise(models) THEN models ELSE SecondPass(spec, 1, models.m))

(***************************************************************************)
(* core.py: Server, Parameter, Operation                                   *)
(*                                                                         *)
(* A format template (a server URL, a path) is the sequence of its pieces: *)
(* [lit |-> text] and [ph |-> name] for a "{name}" placeholder.  A         *)
(* formatted string is Url(pieces), the pieces being [lit |-> text] and    *)
(* [val |-> value].                                                        *)
(* A dict keyed by a status code or by "default" has the keys              *)
(* [int |-> 200] and [str |-> "default"].                                  *)
(***************************************************************************)
IsDigits(s) == s # <<>> /\ \A i \in DOMAIN s : IsDigit(s[i])

DigitValue(c) == (CHOOSE i \in DOMAIN DigitSeq : DigitSeq[i] = c) - 1

\* int(s) for a string of decimal digits
RECURSIVE DigitsValue(_)
DigitsValue(s) ==
  IF s = <<>> THEN 0
  ELSE 10 * DigitsValue(SubSeq(s, 1, Len(s) - 1)) + DigitValue(s[Len(s)])

K_default == <<"d","e","f","a","u","l","t">>

K_body == <<"b","o","d","y">>

K_params == <<"p","a","r","a","m","s">>

K_headers == <<"h","e","a","d","e","r","s">>

K_cookies == <<"c","o","o","k","i","e","s">>

K_json == <<"j","s","o","n">>

PATH == "path"

QUERY == "query"

HEADER == "header"

COOKIE == "cookie"

REQUEST_BODY == "requestBody"

Parameter(name, raw_name, type, required, in_, default) ==
  [name |-> name, raw_name |-> raw_name, type |-> type, required |-> required,
   in_ |-> in_, default |-> default]

Url(pieces) == [k |-> "url", pieces |-> pieces]

\* Server.url: self._url.format(self.variables).  The variables are passed as
\* one positional argument, so a named placeholder finds no keyword.
Server_url(server) ==
  IF \E i \in DOMAIN server.url : Has(server.url[i], "ph")
    THEN Raise("KeyError", "placeholder")
    ELSE Url(server.url)

\* str.format(**kwargs) on a template
Format(template, kwargs) ==
  IF \E i \in DOMAIN template :
       Has(template[i], "ph") /\ template[i].ph \notin DOMAIN kwargs
    THEN Raise("KeyError", "placeholder")
    ELSE Url([i \in DOMAIN template |->
                IF Has(template[i], "ph") THEN [val |-> kwargs[template[i].ph]]
                ELSE template[i]])

\* Operation.url
Operation_url(self, server, kwargs) ==
  Let(Server_url(server), LAMBDA base :
  Let(Format(self.path, kwargs), LAMBDA path :
    IF IsRaise(base) THEN base
    ELSE IF IsRaise(path) THEN path
    ELSE Url(base.pieces \o path.pieces)))

\* the parameter made of the request body, or none
BodyParameters(op_spec, full_spec, available_types) ==
  IF ~ Has(op_spec, "requestBody") \/ DOMAIN op_spec.requestBody = {} THEN <<>>
  ELSE LET body == op_spec.requestBody
       IN  Let(IF Has(body, "schema")
                 THEN type_for_schema(body.schema, full_spec, available_types,
                                      RecursionLimit)
                 ELSE AnyType,
               LAMBDA body_type :
                 <<IF IsRaise(body_type) THEN body_type
                   ELSE Parameter(K_body, K_body, body_type,
                                  IF Has(body, "required") THEN body.required ELSE FALSE,
                                  REQUEST_BODY, None)>>)

\* the parameters made of the declared parameters, in declaration order
DeclaredParameters(op_spec, full_spec, available_types) ==
  LET specs == IF Has(op_spec, "parameters") THEN op_spec.parameters ELSE <<>>
      one(param_spec) ==
        LET default == IF Has(param_spec, "schema") /\ Has(param_spec.schema, "default")
                       THEN param_spec.schema.default ELSE None
        IN  Let(IF Has(param_spec, "schema")
                  THEN type_for_schema(param_spec.schema, full_spec,
                                       available_types, RecursionLimit)
                  ELSE AnyType,
                LAMBDA param_type :
                  IF IsRaise(param_type) THEN param_type
                  ELSE Parameter(camel_to_snake(param_spec.name), param_spec.name,
                                 param_type,
                                 IF Has(param_spec, "required") THEN param_spec.required
                                 ELSE FALSE,
                                 param_spec.in, default))
  IN  [i \in DOMAIN specs |-> one(specs[i])]

\* the key of _response_types for a status of the document
StatusKey(status) ==
  IF status = K_default THEN [str |-> "default"]
  ELSE IF IsDigits(status) THEN [int |-> DigitsValue(status)]
  ELSE Raise("ValueError", "invalid literal for int()")

\* _response_types: a later response overwrites an earlier one under the same key
ResponseTypes(op_spec, full_spec, available_types) ==
  LET responses == IF Has(op_spec, "responses") THEN op_spec.responses ELSE <<>>
      with_schema == {i \in DOMAIN responses : Has(responses[i], "schema")}
      type(i) == type_for_schema(responses[i].schema, full_spec, available_types,
                                 RecursionLimit)
  IN  Let([i \in DOMAIN responses |-> StatusKey(responses[i].status)], LAMBDA key :
      Let([i \in DOMAIN responses |->
             IF i \notin with_schema THEN None
             ELSE IF IsRaise(key[i]) THEN key[i]
             ELSE type(i)],
          LAMBDA results :
        IF HasRaise(results) THEN FirstRaise(results)
        ELSE Dict([status \in {key[i] : i \in with_schema} |->
                     results[CHOOSE i \in with_schema :
                               /\ key[i] = status
                               /\ \A j \in with_schema : key[j] = status => j <= i]])))

\* Operation.__init__: the operation, or the exception that ended the build
Operation_init(path, method, op_spec, full_spec, available_types) ==
  Let(BodyParameters(op_spec, full_spec, available_types)
        \o DeclaredParameters(op_spec, full_spec, available_types),
      LAMBDA parameters :
        IF HasRaise(parameters) THEN FirstRaise(parameters)
        ELSE Let(ResponseTypes(op_spec, full_spec, available_types),
                 LAMBDA response_types :
                   IF IsRaise(response_types) THEN response_types
                   ELSE [k |-> "Operation", path |-> path, method |-> method,
                         parameters |-> parameters,
                         response_types |-> response_types.f]))

(***************************************************************************)
(* core.py: the closure f of Operation._gen_call                           *)
(***************************************************************************)
\* d[key] = value
Put(d, key, value) == [x \in DOMAIN d \cup {key} |-> IF x = key THEN value ELSE d[x]]

\* d.pop(key)
Pop(d, key) == [x \in DOMAIN d \ {key} |-> d[x]]

\* d.update(e)
Update(d, e) == [x \in DOMAIN d \cup DOMAIN e |-> IF x \in DOMAIN e THEN e[x] ELSE d[x]]

NoEntries == [x \in {} |-> None]

_internal_param_prefix == <<"_">>

\* s.startswith(prefix)
StartsWith(s, prefix) == Len(s) >= Len(prefix) /\ SubSeq(s, 1, Len(prefix)) = prefix

\* collection that passes over a parameter the call leaves out, whatever it is
RECURSIVE CollectApiParams_lenient(_, _, _, _)
CollectApiParams_lenient(M, parameters, i, acc) ==
  IF i > Len(parameters) THEN acc
  ELSE LET param == parameters[i]
       IN  IF param.name \notin DOMAIN acc.kwargs
             THEN CollectApiParams_lenient(M, parameters, i + 1, acc)
           ELSE
             Let(serialize_as(M, acc.kwargs[param.name], param.type, FALSE),
                 LAMBDA serialized :
             LET popped == [acc EXCEPT !.kwargs = Pop(acc.kwargs, param.name)]
                 filed ==
                   IF param.in_ = PATH
                     THEN [popped EXCEPT !.path_params =
                             Put(popped.path_params, param.raw_name, serialized)]
                   ELSE IF param.in_ = QUERY
                     THEN [popped EXCEPT !.params =
                             Put(popped.params, param.raw_name, serialized)]
                   ELSE IF param.in_ = HEADER
                     THEN [popped EXCEPT !.headers =
                             Put(popped.headers, param.raw_name, serialized)]
                   ELSE IF param.in_ = COOKIE
                     THEN [popped EXCEPT !.cookies =
                             Put(popped.cookies, param.raw_name, serialized)]
                   ELSE IF param.in_ = REQUEST_BODY
                     THEN [popped EXCEPT !.body = serialized]
                   ELSE popped
             IN  Let(filed, LAMBDA next :
                       CollectApiParams_lenient(M, parameters, i + 1, next)))

\* "collect api params": the parameters[i..] against the keyword arguments left.
\* acc holds kwargs, path_params, params, headers, cookies and body.
RECURSIVE CollectApiParams(_, _, _, _)
CollectApiParams(M, parameters, i, acc) ==
  IF i > Len(parameters) THEN acc
  ELSE LET param == parameters[i]
       IN  IF param.name \notin DOMAIN acc.kwargs
             THEN IF param.in_ = PATH \/ param.required
                    \* the message names the undefined variable "name"
                    THEN Raise("NameError", "name 'name' is not defined")
                    ELSE CollectApiParams(M, parameters, i + 1, acc)
           ELSE
             Let(serialize_as(M, acc.kwargs[param.name], param.type, FALSE),
                 LAMBDA serialized :
             LET popped == [acc EXCEPT !.kwargs = Pop(acc.kwargs, param.name)]
                 filed ==
                   IF param.in_ = PATH
                     THEN [popped EXCEPT !.path_params =
                             Put(popped.path_params, param.raw_name, serialized)]
                   ELSE IF param.in_ = QUERY
                     THEN [popped EXCEPT !.params =
                             Put(popped.params, param.raw_name, serialized)]
                   ELSE IF param.in_ = HEADER
                     THEN [popped EXCEPT !.headers =
                             Put(popped.headers, param.raw_name, serialized)]
                   ELSE IF param.in_ = COOKIE
                     THEN [popped EXCEPT !.cookies =
                             Put(popped.cookies, param.raw_name, serialized)]
                   ELSE IF param.in_ = REQUEST_BODY
                     THEN [popped EXCEPT !.body = serialized]
                   ELSE popped
             IN  Let(filed, LAMBDA next : CollectApiParams(M, parameters, i + 1, next)))

\* "collect internal params": every key that starts with the prefix is renamed
\* to the key without it, replacing what that key held
CollectInternalParams(kwargs) ==
  LET n == Len(_internal_param_prefix)
      prefixed == {key \in DOMAIN kwargs : StartsWith(key, _internal_param_prefix)}
      strip(key) == SubSeq(key, n + 1, Len(key))
  IN  [j \in {strip(key) : key \in prefixed} \cup (DOMAIN kwargs \ prefixed) |->
         IF _internal_param_prefix \o j \in DOMAIN kwargs
           THEN kwargs[_internal_param_prefix \o j]
           ELSE kwargs[j]]

Kwargs(f) == [k |-> "kwargs", f |-> f]

\* kwargs.setdefault(key, {}).update(bucket)
MergeBucket(kwargs, key, bucket) ==
  LET held == IF key \in DOMAIN kwargs THEN kwargs[key] ELSE EmptyDict
  IN  IF held.k # "dict" THEN Raise("AttributeError", "no attribute update")
      ELSE Kwargs(Put(kwargs, key, Dict(Update(held.f, bucket))))

\* defaults that overwrite what the call gave
SetDefaults_overwriting(kwargs, req_opts) ==
  [x \in DOMAIN kwargs \cup DOMAIN req_opts |->
     IF x \in DOMAIN req_opts THEN req_opts[x] ELSE kwargs[x]]

\* for k, v in client._req_opts.items(): kwargs.setdefault(k, v)
SetDefaults(kwargs, req_opts) ==
  [x \in DOMAIN kwargs \cup DOMAIN req_opts |->
     IF x \in DOMAIN kwargs THEN kwargs[x] ELSE req_opts[x]]

\* f up to the call of the transport: the request handed to
\* client._requestor.request, or the exception raised before it
BuildRequest(self, M, client, kwargs) ==
  Let(CollectApiParams(M, self.parameters, 1,
        [kwargs |-> kwargs, path_params |-> NoEntries, params |-> NoEntries,
         headers |-> NoEntries, cookies |-> NoEntries, body |-> None]),
      LAMBDA collected :
  IF IsRaise(collected) THEN collected
  ELSE
  Let(CollectInternalParams(collected.kwargs), LAMBDA k0 :
  Let(MergeBucket(k0, K_params, collected.params), LAMBDA k1 :
  Let(IF IsRaise(k1) THEN k1 ELSE MergeBucket(k1.f, K_headers, collected.headers),
      LAMBDA k2 :
  Let(IF IsRaise(k2) THEN k2 ELSE MergeBucket(k2.f, K_cookies, collected.cookies),
      LAMBDA k3 :
  Let(IF IsRaise(k3) THEN k3
      ELSE IF Truthy(collected.body) THEN Kwargs(Put(k3.f, K_json, collected.body))
      ELSE k3,
      LAMBDA k4 :
  Let(Operation_url(self, client.server, collected.path_params), LAMBDA url :
    IF IsRaise(k4) THEN k4
    ELSE IF IsRaise(url) THEN url
    ELSE [k |-> "request", method |-> self.method, url |-> url.pieces,
          kwargs |-> SetDefaults(k4.f, client.req_opts)])))))))

\* response.json()
Response_json(response) ==
  IF response.body.k = "invalid" THEN Raise("JSONDecodeError", "Expecting value")
  ELSE response.body

\* decoding that looks for the "default" entry before the entry of the status
DecodeResponse_default_first(self, M, response) ==
  IF response.status_code >= 400 /\ response.status_code < 600
    THEN IF IsRaise(Response_json(response))
           THEN Raise("HTTPError", "status")
           ELSE Raise("HTTPError", "status; body")
  ELSE IF "Content-Length" \notin DOMAIN response.headers
    THEN Raise("KeyError", "Content-Length")
  ELSE IF ~ IsDigits(response.headers["Content-Length"])
    THEN Raise("ValueError", "invalid literal for int()")
  ELSE
    Let(IF DigitsValue(response.headers["Content-Length"]) > 0
          THEN Response_json(response) ELSE None,
        LAMBDA data :
          IF IsRaise(data) THEN data
          ELSE IF [str |-> "default"] \in DOMAIN self.response_types
            THEN deserialize_as(M, data, self.response_types[[str |-> "default"]])
          ELSE IF [int |-> response.status_code] \in DOMAIN self.response_types
            THEN deserialize_as(M, data,
                                self.response_types[[int |-> response.status_code]])
          ELSE data)

\* f after the transport has returned: the value returned or the exception raised
DecodeResponse(self, M, response) ==
  IF response.status_code >= 400 /\ response.status_code < 600
    THEN IF IsRaise(Response_json(response))
           THEN Raise("HTTPError", "status")
           ELSE Raise("HTTPError", "status; body")
  ELSE IF "Content-Length" \notin DOMAIN response.headers
    THEN Raise("KeyError", "Content-Length")
  ELSE IF ~ IsDigits(response.headers["Content-Length"])
    THEN Raise("ValueError", "invalid literal for int()")
  ELSE
    Let(IF DigitsValue(response.headers["Content-Length"]) > 0
          THEN Response_json(response) ELSE None,
        LAMBDA data :
          IF IsRaise(data) THEN data
          ELSE IF [int |-> response.status_code] \in DOMAIN self.response_types
            THEN deserialize_as(M, data,
                                self.response_types[[int |-> response.status_code]])
          ELSE IF [str |-> "default"] \in DOMAIN self.response_types
            THEN deserialize_as(M, data, self.response_types[[str |-> "default"]])
          ELSE data)

(***************************************************************************)
(* The documents, clients, calls and responses the model is run on.        *)
(* W_ are names of the document (wire names), L_ their local names as      *)
(* camel_to_snake gives them, C_ class names as format_schema_name gives   *)
(* them, K_ keyword arguments of a call.                                   *)
(***************************************************************************)
N_child == <<"c","h","i","l","d">>

N_other == <<"o","t","h","e","r">>

N_example == <<"e","x","a","m","p","l","e","-","d","t","o">>

C_Child == <<"C","h","i","l","d">>

C_Other == <<"O","t","h","e","r">>

C_Example == <<"E","x","a","m","p","l","e","d","t","o">>

W_kind == <<"k","i","n","d">>

W_Value == <<"V","a","l","u","e">>

W_itemName == <<"i","t","e","m","N","a","m","e">>

W_child == <<"c","h","i","l","d">>

W_createdAt == <<"c","r","e","a","t","e","d","A","t">>

W_shape == <<"s","h","a","p","e">>

W_kids == <<"k","i","d","s">>

L_value == <<"v","a","l","u","e">>

L_item_name == <<"i","t","e","m","_","n","a","m","e">>

L_created_at == <<"c","r","e","a","t","e","d","_","a","t">>

W_itemId == <<"i","t","e","m","I","d">>

W_pageSize == <<"p","a","g","e","S","i","z","e">>

W_XTrace == <<"X","-","T","r","a","c","e">>

W_sid == <<"s","i","d">>

W_other == <<"o","t","h","e","r">>

L_item_id == <<"i","t","e","m","_","i","d">>

L_page_size == <<"p","a","g","e","_","s","i","z","e">>

L_x_trace == <<"x","_","t","r","a","c","e">>

K_timeout == <<"t","i","m","e","o","u","t">>

K__params == <<"_","p","a","r","a","m","s">>

K_q == <<"q">>

\* the longest list among the values, and the most keyword arguments of a call
MaxItems == 1

MaxKwargs == 3

ChildSchema ==
  [type |-> "object", required |-> {W_kind},
   properties |-> <<[prop |-> W_kind, schema |-> [type |-> "string"]],
                    [prop |-> W_Value, schema |-> [type |-> "number"]]>>]

OtherSchema ==
  [type |-> "object", required |-> {W_kind},
   properties |-> <<[prop |-> W_kind, schema |-> [type |-> "string"]]>>]

ShapeSchema ==
  [oneOf |-> <<Ref(N_child), Ref(N_other)>>,
   discriminator |->
     [propertyName |-> W_kind,
      mapping |-> (Str(<<"c">>) :> Ref(N_child).ref @@ Str(<<"o">>) :> Ref(N_other).ref)]]

\* the schema "example-dto": itemName is required, nullable and defaulted as chosen
ExampleSchema(required, nullable, default) ==
  [type |-> "object",
   required |-> IF required THEN {W_itemName} ELSE {},
   properties |->
     <<[prop |-> W_itemName,
        schema |-> IF default = None THEN [type |-> "string", nullable |-> nullable]
                   ELSE [type |-> "string", nullable |-> nullable, default |-> default]],
       [prop |-> W_child, schema |-> Ref(N_child)],
       [prop |-> W_createdAt, schema |-> [type |-> "string", format |-> "date-time"]],
       [prop |-> W_shape, schema |-> ShapeSchema],
       [prop |-> W_kids, schema |-> [type |-> "array", items |-> Ref(N_child)]]>>]

\* components.schemas: "example-dto" is declared before the schemas it refers to
Schemas(required, nullable, default) ==
  <<[name |-> N_example, desc |-> ExampleSchema(required, nullable, default)],
    [name |-> N_child, desc |-> ChildSchema],
    [name |-> N_other, desc |-> OtherSchema]>>

PathTemplates ==
  {<<[lit |-> "/items/"], [ph |-> W_itemId]>>,
   <<[lit |-> "/items/"], [ph |-> W_other]>>}

ItemIdSpecs ==
  {[name |-> W_itemId, in |-> PATH, schema |-> [type |-> "string"]],
   [name |-> W_itemId, in |-> PATH, required |-> TRUE, schema |-> [type |-> "string"]]}

PageSizeSpecs ==
  {[name |-> W_pageSize, in |-> QUERY, schema |-> [type |-> "number"]],
   [name |-> W_pageSize, in |-> QUERY, required |-> TRUE, schema |-> [type |-> "number"]]}

XTraceSpec == [name |-> W_XTrace, in |-> HEADER, schema |-> [type |-> "string"]]

SidSpec == [name |-> W_sid, in |-> COOKIE]

\* a body with a JSON schema, and a required body without one
RequestBodies ==
  {[schema |-> Ref(N_child)], [required |-> TRUE, content |-> "text/plain"]}

S_200 == <<"2","0","0">>

ResponseSpecs ==
  {<<[status |-> S_200, schema |-> Ref(N_child)],
     [status |-> K_default, schema |-> Ref(N_other)]>>,
   <<[status |-> S_200], [status |-> K_default, schema |-> Ref(N_other)]>>,
   <<[status |-> S_200, schema |-> Ref(N_child)]>>,
   <<[status |-> S_200]>>}

OpSpecs ==
  {[requestBody |-> body, parameters |-> <<item, page, XTraceSpec, SidSpec>>,
    responses |-> responses] :
     body \in RequestBodies, item \in ItemIdSpecs, page \in PageSizeSpecs,
     responses \in ResponseSpecs}
  \cup
  {[parameters |-> <<item, page, XTraceSpec, SidSpec>>, responses |-> responses] :
     item \in ItemIdSpecs, page \in PageSizeSpecs, responses \in ResponseSpecs}

\* the documents of the invoker: one operation over fixed schemas
Documents ==
  {[schemas |-> Schemas(FALSE, FALSE, None), path |-> path, method |-> "get",
    op_spec |-> op_spec] :
     path \in PathTemplates, op_spec \in OpSpecs}

\* the documents of the codec: the schema of itemName varies
CodecDocuments ==
  {[schemas |-> Schemas(required, nullable, default),
    path |-> <<[lit |-> "/items"]>>, method |-> "get",
    op_spec |-> [responses |-> <<[status |-> S_200, schema |-> Ref(N_example)]>>]] :
     required \in BOOLEAN, nullable \in BOOLEAN, default \in {None, Str(<<"d">>)}}

PlainServer == [url |-> <<[lit |-> "https://api.example"]>>, variables |-> NoEntries]

\* client-wide default options: req_opts of BaseClient.__init__
ReqOpts ==
  {NoEntries,
   (K_timeout :> Num("30") @@ K_json :> Dict(K_q :> Str(<<"default">>))
      @@ K_params :> Dict(K_q :> Str(<<"default">>)))}

Clients == {[server |-> PlainServer, req_opts |-> req_opts] : req_opts \in ReqOpts}

ChildValues ==
  {Dto(C_Child, (W_kind :> Str(<<"c">>) @@ L_value :> Num("1"))),
   Dto(C_Child, (W_kind :> Str(<<"c">>) @@ L_value :> None))}

OtherValues == {Dto(C_Other, (W_kind :> Str(<<"o">>)))}

\* the lists of at most n elements of S
RECURSIVE ListsUpTo(_, _)
ListsUpTo(S, n) ==
  IF n = 0 THEN {<<>>}
  ELSE ListsUpTo(S, n - 1)
       \cup {<<x>> \o l : x \in S, l \in {m \in ListsUpTo(S, n - 1) : Len(m) = n - 1}}

\* the instances of Exampledto that are valid against its schema
ExampleValues ==
  {Dto(C_Example,
       (L_item_name :> item_name @@ W_child :> child @@ L_created_at :> created_at
          @@ W_shape :> shape @@ W_kids :> kids)) :
     item_name \in {None, Str(<<"x">>)},
     child \in {None} \cup ChildValues,
     created_at \in {None, DateTime("2023-01-01T00:00:00", "naive"),
                     DateTime("2023-01-01T00:00:00", "+00:00")},
     shape \in {None} \cup ChildValues \cup OtherValues,
     kids \in {None} \cup {List(l) : l \in ListsUpTo(ChildValues, MaxItems)}}

\* what a caller may pass under each keyword
KwargKeys ==
  <<L_item_id, L_page_size, L_x_trace, W_sid, K_body, K_params, K__params,
    K_timeout, K_json>>

KwargValues(key) ==
  IF key = L_item_id THEN {Str(<<"42">>)}
  ELSE IF key = L_page_size THEN {Num("10")}
  ELSE IF key = L_x_trace THEN {Str(<<"t">>)}
  ELSE IF key = W_sid THEN {Str(<<"s">>)}
  ELSE IF key = K_body
    THEN {EmptyDict, List(<<>>), Num("0"), Bool("false"),
          Dict(K_q :> Num("1")), Dto(C_Child, (W_kind :> Str(<<"c">>) @@ L_value :> None))}
  ELSE IF key = K_params
    THEN {Dict(K_q :> Str(<<"call">>)), Dict(W_pageSize :> Str(<<"call">>))}
  ELSE IF key = K__params THEN {Dict(K_timeout :> Str(<<"internal">>))}
  ELSE IF key = K_timeout THEN {Num("5")}
  ELSE {Dict(K_q :> Str(<<"call">>))}

\* the keyword arguments over keys, at most n of them
RECURSIVE KwargsFrom(_, _)
KwargsFrom(keys, n) ==
  IF keys = <<>> \/ n = 0 THEN {NoEntries}
  ELSE KwargsFrom(Tail(keys), n)
       \cup {Put(f, Head(keys), v) :
               f \in KwargsFrom(Tail(keys), n - 1), v \in KwargValues(Head(keys))}

Calls == KwargsFrom(KwargKeys, MaxKwargs)

ChildPayload == Dict(W_kind :> Str(<<"c">>) @@ W_Value :> Num("1"))

\* what the transport may answer
Responses ==
  {[status_code |-> status, headers |-> headers, body |-> body] :
     status \in {200, 201, 404},
     headers \in {[h \in {} |-> <<>>],
                  [h \in {"Content-Length"} |-> <<"0">>],
                  [h \in {"Content-Length"} |-> <<"1","7">>]},
     body \in {ChildPayload, [k |-> "invalid"]}}

(***************************************************************************)
(* The state: the document and what build_client_module makes of it, the   *)
(* client, one invocation of the operation, and one use of the codec.      *)
(***************************************************************************)
VARIABLES
  doc,       \* the OpenAPI document
  models,    \* the classes add_types_to_module realized: Built(table), or None
  op,        \* the Operation of the document, or None
  client,    \* the client instance: its server and its _req_opts
  pc,        \* "unbuilt", "idle", "awaiting-transport", "decoding-response", "settled"
  call,      \* Kwargs of the keyword arguments, until the transport answers
  request,   \* the request in the hands of the transport
  ncalls,    \* the calls of client._requestor.request made by this invocation
  response,  \* the response the transport returned
  result,    \* what the invocation returned or raised
  codec,     \* one use of the codec: the value, the wire form, the result
  resolved,  \* one use of type_for_schema: the fragment and what it resolved to
  klass,     \* the client class: _operations, _sub_apis and its SubApi attributes
  instances, \* the client instances made from the class
  threads    \* the invocations in progress at the same time, each with its locals

vars ==
  <<doc, models, op, client, pc, call, request, ncalls, response, result, codec,
    resolved, klass, instances, threads>>

\* the state of the parts that build_client_module, an invocation and the codec
\* leave alone
elsewhere == <<resolved, klass, instances, threads>>

invocation == <<call, request, ncalls, response, result>>

CodecIdle == [pc |-> "idle"]

\* module.py build_client_module: the classes, then the operation over them
build_client_module ==
  /\ pc = "unbuilt"
  /\ \E built \in {add_types_to_module(doc)} :
       \E operation \in {IF IsRaise(built) THEN built
                          ELSE Operation_init(doc.path, doc.method, doc.op_spec, doc,
                                              RealizedTypes(built.m))} :
         /\ models' = built
         /\ op' = operation
         /\ pc' = IF IsRaise(operation) THEN "build-failed" ELSE "idle"
  /\ UNCHANGED <<doc, elsewhere, client, invocation, codec>>

\* Operation.__call__ up to the call of the transport
Invoke ==
  /\ pc = "idle"
  /\ \E kwargs \in Calls :
       \E built \in {BuildRequest(op, models.m, client, kwargs)} :
           /\ call' = Kwargs(kwargs)
           /\ IF IsRaise(built)
                THEN /\ result' = built
                     /\ pc' = "settled"
                     /\ UNCHANGED <<request, ncalls>>
                ELSE /\ request' = built
                     /\ ncalls' = ncalls + 1
                     /\ pc' = "awaiting-transport"
                     /\ UNCHANGED result
  /\ UNCHANGED <<doc, elsewhere, models, op, client, response, codec>>

\* client._requestor.request returns a response
TransportReturns ==
  /\ pc = "awaiting-transport"
  /\ \E r \in Responses : response' = r
  /\ request' = None
  /\ call' = None
  /\ pc' = "decoding-response"
  /\ UNCHANGED <<doc, elsewhere, models, op, client, ncalls, result, codec>>

\* client._requestor.request raises
TransportRaises ==
  /\ pc = "awaiting-transport"
  /\ result' = Raise("ConnectionError", "transport")
  /\ request' = None
  /\ call' = None
  /\ pc' = "settled"
  /\ UNCHANGED <<doc, elsewhere, models, op, client, ncalls, response, codec>>

\* Operation.__call__ from the answer of the transport to its end
Decode ==
  /\ pc = "decoding-response"
  /\ result' = DecodeResponse(op, models.m, response)
  /\ pc' = "settled"
  /\ UNCHANGED <<doc, elsewhere, models, op, client, call, request, ncalls, response, codec>>

\* the caller has the outcome; the next invocation starts afresh
Return ==
  /\ pc = "settled"
  /\ pc' = "idle"
  /\ call' = None
  /\ request' = None
  /\ ncalls' = 0
  /\ response' = None
  /\ result' = None
  /\ UNCHANGED <<doc, elsewhere, models, op, client, codec>>

InitInvocation ==
  /\ models = None
  /\ op = None
  /\ pc = "unbuilt"
  /\ call = None
  /\ request = None
  /\ ncalls = 0
  /\ response = None
  /\ result = None
  /\ codec = CodecIdle
  /\ resolved = None
  /\ klass = None
  /\ instances = <<>>
  /\ threads = <<>>

Init ==
  /\ doc \in Documents
  /\ client \in Clients
  /\ InitInvocation

Next ==
  \/ build_client_module
  \/ Invoke
  \/ TransportReturns
  \/ TransportRaises
  \/ Decode
  \/ Return

Spec == Init /\ [][Next]_vars

(***************************************************************************)
(* Properties of an invocation.                                            *)
(***************************************************************************)
\* the invocation ended before the transport was called
FailedBeforeTransport == pc = "settled" /\ call.k = "kwargs"

\* the transport returned a response to this invocation
Answered == "status_code" \in DOMAIN response

\* the parameters a call leaves out though they are required or in the path
NeededMissing(parameters, kwargs) ==
  {i \in DOMAIN parameters :
     /\ parameters[i].name \notin DOMAIN kwargs
     /\ (parameters[i].in_ = PATH \/ parameters[i].required)}

\* the placeholders of the path that the call gives no path parameter for
Unsubstituted(path, parameters, kwargs) ==
  {path[i].ph : i \in {j \in DOMAIN path : Has(path[j], "ph")}}
    \ {parameters[i].raw_name :
         i \in {j \in DOMAIN parameters :
                  parameters[j].in_ = PATH /\ parameters[j].name \in DOMAIN kwargs}}

\* C1: a call that leaves out a parameter that is required or located in the
\* path fails with a ValueError, and a call that leaves out no such parameter
\* does not fail with one.
C1_MissingParameterIsValueError ==
  FailedBeforeTransport =>
    ( NeededMissing(op.parameters, call.f) # {}
        <=> (IsRaise(result) /\ result.exc = "ValueError") )

\* C2: an invocation calls the transport at most once: once when parameter
\* collection and path substitution succeed, never when one of them fails, and
\* no answer of the transport adds a call.
C2_AtMostOneTransportCall ==
  /\ ncalls <= 1
  /\ pc = "awaiting-transport" =>
       /\ ncalls = 1
       /\ NeededMissing(op.parameters, call.f) = {}
       /\ Unsubstituted(op.path, op.parameters, call.f) = {}
  /\ pc = "decoding-response" => ncalls = 1
  /\ FailedBeforeTransport =>
       /\ ncalls = 0
       /\ \/ NeededMissing(op.parameters, call.f) # {}
          \/ Unsubstituted(op.path, op.parameters, call.f) # {}
  /\ (pc = "settled" /\ call.k # "kwargs") => ncalls = 1

\* an error status came back and the invocation raised after its one call
C2_Witness ==
  /\ pc = "settled"
  /\ Answered
  /\ response.status_code = 404
  /\ IsRaise(result)
  /\ ncalls = 1

\* the response is a success that carries a body of valid JSON
SuccessWithBody ==
  /\ Answered
  /\ response.status_code < 400
  /\ "Content-Length" \in DOMAIN response.headers
  /\ DigitsValue(response.headers["Content-Length"]) > 0
  /\ response.body.k # "invalid"

\* the responses the document declares under a status with a JSON schema
DeclaredWithSchema(status) ==
  {i \in DOMAIN doc.op_spec.responses :
     /\ doc.op_spec.responses[i].status = status
     /\ Has(doc.op_spec.responses[i], "schema")}

\* the class a response schema of the document refers to
DeclaredType(i) == DtoType(format_schema_name(doc.op_spec.responses[i].schema.ref.name))

\* the status code as the document writes it
StatusText(code) ==
  CHOOSE s \in {<<"2","0","0">>, <<"2","0","1">>, <<"4","0","4">>} : DigitsValue(s) = code

\* C3: a success with a body returns the JSON deserialized against the entry of
\* the exact status if there is one, else against the "default" entry if there
\* is one, else the JSON itself; a status declared without a JSON schema has no
\* entry.
C3_ResponseTypeSelection ==
  /\ (pc = "settled" /\ SuccessWithBody) =>
       LET exact == DeclaredWithSchema(StatusText(response.status_code))
           default == DeclaredWithSchema(K_default)
           last(S) == CHOOSE i \in S : \A j \in S : j <= i
       IN  result =
             IF exact # {}
               THEN deserialize_as(models.m, response.body, DeclaredType(last(exact)))
             ELSE IF default # {}
               THEN deserialize_as(models.m, response.body, DeclaredType(last(default)))
             ELSE response.body
  /\ pc \notin {"unbuilt", "build-failed"} =>
       \A i \in DOMAIN doc.op_spec.responses :
         DeclaredWithSchema(doc.op_spec.responses[i].status) = {}
           => StatusKey(doc.op_spec.responses[i].status) \notin DOMAIN op.response_types

\* status 201 has no entry of its own and the "default" entry decodes the body
C3_Witness ==
  /\ pc = "settled"
  /\ SuccessWithBody
  /\ response.status_code = 201
  /\ DeclaredWithSchema(K_default) # {}
  /\ result = Dto(C_Other, (W_kind :> Str(<<"c">>)))

\* C4: a success whose Content-Length is 0 or absent returns None.
C4_EmptyBodyReturnsNone ==
  ( /\ pc = "settled"
    /\ Answered
    /\ response.status_code < 400
    /\ \/ "Content-Length" \notin DOMAIN response.headers
       \/ DigitsValue(response.headers["Content-Length"]) = 0 )
  => result = None

\* the names under which the parameters of the operation are passed
DeclaredNames(parameters) == {parameters[i].name : i \in DOMAIN parameters}

\* the option keys of a call: its keywords that are no declared parameter,
\* without the prefix that marks an option
PerCallKeys(parameters, kwargs) ==
  {IF StartsWith(key, _internal_param_prefix)
     THEN SubSeq(key, Len(_internal_param_prefix) + 1, Len(key)) ELSE key :
     key \in DOMAIN kwargs \ DeclaredNames(parameters)}

\* the value a call gives for an option key
PerCallOption(kwargs, key) ==
  IF _internal_param_prefix \o key \in DOMAIN kwargs
    THEN kwargs[_internal_param_prefix \o key] ELSE kwargs[key]

\* the values of the declared parameters of one location, by wire name
Collected(M, parameters, kwargs, in_) ==
  LET given == {i \in DOMAIN parameters :
                  parameters[i].in_ = in_ /\ parameters[i].name \in DOMAIN kwargs}
      last(raw) == CHOOSE i \in given :
                     /\ parameters[i].raw_name = raw
                     /\ \A j \in given : parameters[j].raw_name = raw => j <= i
  IN  [raw \in {parameters[i].raw_name : i \in given} |->
         serialize_as(M, kwargs[parameters[last(raw)].name],
                      parameters[last(raw)].type, FALSE)]

\* the body the call gives, serialized; None when it gives none
SuppliedBody(M, parameters, kwargs) ==
  IF \E i \in DOMAIN parameters :
       parameters[i].in_ = REQUEST_BODY /\ parameters[i].name \in DOMAIN kwargs
    THEN LET i == CHOOSE j \in DOMAIN parameters : parameters[j].in_ = REQUEST_BODY
         IN  serialize_as(M, kwargs[parameters[i].name], parameters[i].type, FALSE)
    ELSE None

C6_BodySentAsJson ==
  pc = "awaiting-transport" =>
    LET hasBody == \E i \in DOMAIN op.parameters : op.parameters[i].in_ = REQUEST_BODY
    IN  /\ (hasBody /\ K_body \in DOMAIN call.f) =>
             /\ K_json \in DOMAIN request.kwargs
             /\ request.kwargs[K_json] = SuppliedBody(models.m, op.parameters, call.f)
        /\ ( /\ K_body \notin DOMAIN call.f
             /\ K_json \notin PerCallKeys(op.parameters, call.f)
             /\ K_json \notin DOMAIN client.req_opts )
           => K_json \notin DOMAIN request.kwargs

(***************************************************************************)
(* The codec at work on the realized classes.                              *)
(***************************************************************************)
\* the type of a field of a realized class
FieldType(M, cls, field_name) ==
  M[cls].fields[CHOOSE i \in DOMAIN M[cls].fields : M[cls].fields[i].name = field_name].type

ChildLocalPayload == Dict(W_kind :> Str(<<"c">>) @@ L_value :> Num("1"))

\* payloads for a union: tags of the mapping, tags outside it, and no tag
UnionPayloads ==
  {ChildPayload, ChildLocalPayload,
   Dict(W_kind :> Str(<<"o">>)),
   Dict(W_kind :> Str(<<"zz">>)),
   Dict(W_kind :> Str(<<>>)),
   Dict(W_kind :> Num("0")),
   Dict(W_Value :> Num("1")),
   EmptyDict}

KeywordChoices ==
  {NoKeywords, [x \in {"use_python_names"} |-> TRUE],
   [x \in {"use_python_names"} |-> FALSE]}

\* value.serialize(use_python_names=mode)
Serialize ==
  /\ pc = "idle"
  /\ codec.pc = "idle"
  /\ \E value \in ExampleValues, mode \in BOOLEAN :
       codec' = [pc |-> "serialized", value |-> value, mode |-> mode,
                 wire |-> BaseDto_serialize(models.m, value, mode)]
  /\ UNCHANGED <<doc, elsewhere, models, op, client, pc, invocation>>

\* type(value).deserialize(wire), on what serialize() produced
DeserializeWire ==
  /\ codec.pc = "serialized"
  /\ \E back \in {BaseDto_deserialize_call(models.m, codec.value.cls, codec.wire,
                                           NoKeywords)} :
       codec' = [pc |-> "roundtrip", value |-> codec.value, mode |-> codec.mode,
                 wire |-> codec.wire, back |-> back]
  /\ UNCHANGED <<doc, elsewhere, models, op, client, pc, invocation>>

\* Child.deserialize(payload, **kw)
DeserializeRecord ==
  /\ pc = "idle"
  /\ codec.pc = "idle"
  /\ \E payload \in {ChildPayload, ChildLocalPayload}, kw \in KeywordChoices :
       codec' = [pc |-> "deserialized", entry |-> "BaseDto.deserialize",
                 type |-> DtoType(C_Child), payload |-> payload, kw |-> kw,
                 back |-> BaseDto_deserialize_call(models.m, C_Child, payload, kw)]
  /\ UNCHANGED <<doc, elsewhere, models, op, client, pc, invocation>>

\* deserialize_as(payload, List[Child], **kw)
DeserializeList ==
  /\ pc = "idle"
  /\ codec.pc = "idle"
  /\ \E items \in ListsUpTo({ChildPayload, ChildLocalPayload}, MaxItems),
        kw \in KeywordChoices :
       codec' = [pc |-> "deserialized", entry |-> "deserialize_as",
                 type |-> ListOf(DtoType(C_Child)), payload |-> List(items), kw |-> kw,
                 back |-> deserialize_as_call(models.m, List(items),
                                              ListOf(DtoType(C_Child)), kw)]
  /\ UNCHANGED <<doc, elsewhere, models, op, client, pc, invocation>>

\* union.deserialize(payload, **kw), the union being the type of Exampledto.shape
DeserializeUnion ==
  /\ pc = "idle"
  /\ codec.pc = "idle"
  /\ \E payload \in UnionPayloads, kw \in KeywordChoices :
       \E union \in {FieldType(models.m, C_Example, W_shape)} :
         codec' = [pc |-> "deserialized", entry |-> "TaggedUnion.deserialize",
                   type |-> union, payload |-> payload, kw |-> kw,
                   back |-> TaggedUnion_deserialize_call(models.m, union, payload, kw)]
  /\ UNCHANGED <<doc, elsewhere, models, op, client, pc, invocation>>

\* the caller has the result; the codec is used again
CodecDone ==
  /\ codec.pc \in {"roundtrip", "deserialized"}
  /\ codec' = CodecIdle
  /\ UNCHANGED <<doc, elsewhere, models, op, client, pc, invocation>>

InitCodec ==
  /\ doc \in CodecDocuments
  /\ client \in Clients
  /\ InitInvocation

NextCodec ==
  \/ build_client_module
  \/ Serialize
  \/ DeserializeWire
  \/ DeserializeRecord
  \/ DeserializeList
  \/ DeserializeUnion
  \/ CodecDone

SpecCodec == InitCodec /\ [][NextCodec]_vars

(***************************************************************************)
(* Properties of the codec.                                                *)
(***************************************************************************)
\* C7: serialize() emits the key of a field exactly when the value of the field
\* is not None or the field is in required_fields or in nullable_fields; a None
\* that is emitted is an explicit null; every key is the wire name of a field
\* under name_map, or the local name when use_python_names is set.
C7_SerializeEmitsKeyIff ==
  codec.pc = "serialized" =>
    LET c == models.m[codec.value.cls]
        names == {c.fields[i].name : i \in DOMAIN c.fields}
        key(name) == IF codec.mode THEN name ELSE c.name_map[name]
        emitted(name) ==
          \/ codec.value.f[name] # None
          \/ name \in c.required_fields
          \/ name \in c.nullable_fields
    IN  /\ codec.wire.k = "dict"
        /\ \A name \in names : key(name) \in DOMAIN codec.wire.f <=> emitted(name)
        /\ \A name \in names :
             (emitted(name) /\ codec.value.f[name] = None)
               => codec.wire.f[key(name)] = None
        /\ DOMAIN codec.wire.f \subseteq {key(name) : name \in names}

\* item_name is None and nullable: the wire form holds "itemName": null, and
\* holds no key for created_at, which is None and neither required nor nullable
C7_Witness ==
  /\ codec.pc = "serialized"
  /\ ~ codec.mode
  /\ codec.value.f[L_item_name] = None
  /\ L_item_name \in models.m[C_Example].nullable_fields
  /\ L_item_name \notin models.m[C_Example].required_fields
  /\ W_itemName \in DOMAIN codec.wire.f
  /\ codec.wire.f[W_itemName] = None
  /\ codec.value.f[L_created_at] = None
  /\ W_createdAt \notin DOMAIN codec.wire.f

\* C8: deserialize(serialize(V)) = V for every value V of a realized class
\* with no field of type Any.
C8_RoundTrip ==
  (codec.pc = "roundtrip" /\ ~ codec.mode) => codec.back = codec.value

\* C9: a payload whose discriminator value is a key of the mapping
\* deserializes to the class mapped from it; one whose value is no key of the
\* mapping fails with "discriminator value not in union"; one without the
\* discriminator field fails with "discriminator mapping field not found".
C9_UnionDispatch ==
  ( /\ codec.pc = "deserialized"
    /\ codec.entry = "TaggedUnion.deserialize"
    /\ codec.kw = NoKeywords )
  => LET union == codec.type
         data == codec.payload.f
     IN  IF union.discriminator_field \notin DOMAIN data
           THEN /\ IsRaise(codec.back)
                /\ codec.back.msg = "discriminator mapping field not found on union object"
         ELSE IF data[union.discriminator_field] \notin DOMAIN union.discriminator_mapping
           THEN /\ IsRaise(codec.back)
                /\ codec.back.msg = "discriminator value not in union"
         ELSE /\ codec.back.k = "dto"
              /\ DtoType(codec.back.cls)
                   = union.discriminator_mapping[data[union.discriminator_field]]

\* Child read from a payload under the wire names, or under the local names
ChildRead(payload, local) ==
  LET key == IF local THEN L_value ELSE W_Value
  IN  Dto(C_Child,
          (W_kind :> payload.f[W_kind]
             @@ L_value :> IF key \in DOMAIN payload.f THEN payload.f[key] ELSE None))

\* C10: BaseDto.deserialize and deserialize_as accept use_python_names; with
\* use_python_names=True a record, and each record of a list, is read under
\* its local names, and a field the payload holds only under its wire name
\* takes its default; otherwise the fields are read under their wire names.
C10_LocalNameMode ==
  ( /\ codec.pc = "deserialized"
    /\ codec.entry \in {"BaseDto.deserialize", "deserialize_as"} )
  => LET local == "use_python_names" \in DOMAIN codec.kw /\ codec.kw["use_python_names"]
     IN  IF codec.entry = "BaseDto.deserialize"
           THEN codec.back = ChildRead(codec.payload, local)
           ELSE codec.back = List([i \in DOMAIN codec.payload.items |->
                                     ChildRead(codec.payload.items[i], local)])

(***************************************************************************)
(* The registry at work: documents whose component schemas refer to each   *)
(* other in either order, collide in their class name, or hold fragments   *)
(* that cannot be resolved; and type_for_schema on one fragment.           *)
(***************************************************************************)
W_next == <<"n","e","x","t">>

\* the most component schemas of a document
MaxSchemas == 2

\* the names of component schemas: "child" and "Child" format to the same name
SchemaNames == {N_child, C_Child, N_other}

OneOfTwo == <<Ref(N_child), Ref(N_other)>>

TagMapping == (Str(<<"c">>) :> Ref(N_child).ref @@ Str(<<"o">>) :> Ref(N_other).ref)

\* the schema fragments a property or a parameter may hold
Fragments ==
  {Ref(N_child), Ref(N_other), Ref(C_Child),
   [type |-> "string"], [type |-> "integer"], [format |-> "date-time"],
   [type |-> "array", items |-> Ref(N_other)],
   [oneOf |-> OneOfTwo],
   [oneOf |-> OneOfTwo, discriminator |-> [mapping |-> TagMapping]],
   [oneOf |-> OneOfTwo, discriminator |-> [propertyName |-> W_kind]],
   [oneOf |-> OneOfTwo,
    discriminator |-> [propertyName |-> W_kind, mapping |-> TagMapping]]}

\* a component schema: an object with the property "next", or a schema that
\* is only a reference, or an array of references
ComponentSchemas ==
  {[type |-> "object", properties |-> <<[prop |-> W_next, schema |-> schema]>>] :
     schema \in Fragments}
  \cup {Ref(N_child), Ref(N_other)}
  \cup {[type |-> "array", items |-> Ref(N_child)]}

\* components.schemas of at most n schemas under names of their own
RECURSIVE SchemaLists(_)
SchemaLists(n) ==
  IF n = 0 THEN {<<>>}
  ELSE SchemaLists(n - 1)
       \cup {Append(l, [name |-> name, desc |-> desc]) :
               l \in {m \in SchemaLists(n - 1) : Len(m) = n - 1},
               name \in SchemaNames, desc \in ComponentSchemas}

\* the documents of the registry: the operation answers with the first schema
RegistryDocuments ==
  {[schemas |-> schemas, path |-> <<[lit |-> "/items"]>>, method |-> "get",
    op_spec |-> [responses |-> <<[status |-> S_200, schema |-> Ref(schemas[1].name)]>>]] :
     schemas \in {l \in SchemaLists(MaxSchemas) :
                    /\ l # <<>>
                    /\ \A i, j \in DOMAIN l : i # j => l[i].name # l[j].name}}

\* type_for_schema(schema, full_spec, available_types), as Operation.__init__
\* calls it on the schema of a parameter
Resolve ==
  /\ pc = "idle"
  /\ resolved = None
  /\ \E schema \in Fragments :
       resolved' = [schema |-> schema,
                    type |-> type_for_schema(schema, doc, RealizedTypes(models.m),
                                             RecursionLimit)]
  /\ UNCHANGED <<doc, models, op, client, pc, invocation, codec, klass, instances, threads>>

InitRegistry ==
  /\ doc \in RegistryDocuments
  /\ client = [server |-> PlainServer, req_opts |-> NoEntries]
  /\ InitInvocation

NextRegistry ==
  \/ build_client_module
  \/ Resolve

SpecRegistry == InitRegistry /\ [][NextRegistry]_vars

(***************************************************************************)
(* Properties of the registry.                                             *)
(***************************************************************************)
\* the document declares an object-typed component schema under the name
IsObjectComponent(name) ==
  \E i \in DOMAIN doc.schemas :
    doc.schemas[i].name = name /\ IsObjectSchema(doc.schemas[i].desc)

\* two schemas of the document format to the same class name
NameCollision ==
  \E i, j \in DOMAIN doc.schemas :
    /\ i # j
    /\ format_schema_name(doc.schemas[i].name) = format_schema_name(doc.schemas[j].name)

C12_AmbiguousUnionRaises ==
  ( /\ "schema" \in DOMAIN resolved
    /\ Has(resolved.schema, "oneOf")
    /\ Len(resolved.schema.oneOf) > 1
    /\ \/ ~ Has(resolved.schema, "discriminator")
       \/ ~ Has(resolved.schema.discriminator, "propertyName")
       \/ ~ Has(resolved.schema.discriminator, "mapping") )
  => IsRaise(resolved.type)

\* C13: resolving a fragment without $ref, allOf and oneOf raises when it has
\* no type and when its type is none of string, number, boolean, array and
\* object; what resolution returns is never None.
C13_UnknownTypeRaises ==
  ( /\ "schema" \in DOMAIN resolved
    /\ ~ Has(resolved.schema, "ref")
    /\ ~ Has(resolved.schema, "allOf")
    /\ ~ Has(resolved.schema, "oneOf") )
  => /\ ( \/ ~ Has(resolved.schema, "type")
          \/ resolved.schema.type
               \notin {"string", "number", "boolean", "array", "object"} )
          => IsRaise(resolved.type)
     /\ ~ IsRaise(resolved.type) => resolved.type.t # "NoneType"

\* C15: when two object schemas of the document format to the same class
\* name, the build of the registry raises.
C15_NameCollisionFails ==
  ( /\ pc # "unbuilt"
    /\ \E i, j \in DOMAIN doc.schemas :
         /\ i # j
         /\ IsObjectSchema(doc.schemas[i].desc)
         /\ IsObjectSchema(doc.schemas[j].desc)
         /\ format_schema_name(doc.schemas[i].name)
              = format_schema_name(doc.schemas[j].name) )
  => IsRaise(models)

\* the component schemas type_for_schema goes on to from a fragment: through
\* $ref, a one-branch allOf, oneOf and the items of an array, never through
\* properties
RECURSIVE Targets(_)
Targets(schema) ==
  IF Has(schema, "ref") THEN {schema.ref.name}
  ELSE IF Has(schema, "allOf")
    THEN IF Len(schema.allOf) = 1 THEN Targets(schema.allOf[1]) ELSE {}
  ELSE IF Has(schema, "oneOf")
    THEN UNION {Targets(schema.oneOf[i]) : i \in DOMAIN schema.oneOf}
  ELSE IF Has(schema, "type") /\ schema.type = "array" /\ Has(schema, "items")
    THEN Targets(schema.items)
  ELSE {}

\* the names reached from the names S in at most n steps through component
\* schemas that are not object-typed
RECURSIVE Reached(_, _)
Reached(S, n) ==
  IF n = 0 THEN S
  ELSE Reached(S \cup UNION {Targets(doc.schemas[i].desc) :
                               i \in {j \in DOMAIN doc.schemas :
                                        /\ doc.schemas[j].name \in S
                                        /\ ~ IsObjectSchema(doc.schemas[j].desc)}},
               n - 1)

\* a cycle of $ref pointers that passes through no object-typed component
RefCycleOutsideObjects ==
  \E i \in DOMAIN doc.schemas :
    /\ ~ IsObjectSchema(doc.schemas[i].desc)
    /\ doc.schemas[i].name \in Reached(Targets(doc.schemas[i].desc), Len(doc.schemas))

IsRecursionError(v) == IsRaise(v) /\ v.exc = "RecursionError"

C20_CycleWitness ==
  /\ pc = "build-failed"
  /\ RefCycleOutsideObjects
  /\ IsRecursionError(models) \/ IsRecursionError(op)

(***************************************************************************)
(* Invocations against servers whose URL is a template.                    *)
(***************************************************************************)
W_host == <<"h","o","s","t">>

\* "https://{host}.example" with and without a value for host, and a URL
\* without placeholders
Servers ==
  {PlainServer,
   [url |-> <<[lit |-> "https://"], [ph |-> W_host], [lit |-> ".example"]>>,
    variables |-> (W_host :> Str(<<"api">>))],
   [url |-> <<[lit |-> "https://"], [ph |-> W_host], [lit |-> ".example"]>>,
    variables |-> NoEntries]}

InitServers ==
  /\ doc \in {d \in Documents :
                /\ ~ Has(d.op_spec, "requestBody")
                /\ d.op_spec.responses = <<[status |-> S_200]>>}
  /\ client \in {[server |-> server, req_opts |-> NoEntries] : server \in Servers}
  /\ InitInvocation

SpecServers == InitServers /\ [][Next]_vars

\* a template with each placeholder replaced by the value held under its name
Substituted(template, values) ==
  [i \in DOMAIN template |->
     IF Has(template[i], "ph") THEN [val |-> values[template[i].ph]]
     ELSE template[i]]

\* C17: when the call gives every parameter that is needed and the server has
\* a variable for every placeholder of its URL, the request goes to the URL of
\* the server with each placeholder replaced by its variable, followed by the
\* path with each placeholder replaced by the serialized path parameter of
\* that wire name.
C17_RequestUrl ==
  ( /\ call.k = "kwargs"
    /\ pc \in {"awaiting-transport", "settled"}
    /\ NeededMissing(op.parameters, call.f) = {}
    /\ Unsubstituted(op.path, op.parameters, call.f) = {}
    /\ \A i \in DOMAIN client.server.url :
         Has(client.server.url[i], "ph")
           => client.server.url[i].ph \in DOMAIN client.server.variables )
  => /\ pc = "awaiting-transport"
     /\ request.url =
          Substituted(client.server.url, client.server.variables)
            \o Substituted(op.path, Collected(models.m, op.parameters, call.f, PATH))

\* C19: a client-wide default option whose key the call does not give as an
\* option is sent with its default value: under params, headers and cookies
\* the default updated with the declared parameters of that location, under
\* any other key the default itself (for json, unless the call has a body).
C19_DefaultsReachTransport ==
  pc = "awaiting-transport" =>
    LET keys == PerCallKeys(op.parameters, call.f)
        sent == request.kwargs
        body == SuppliedBody(models.m, op.parameters, call.f)
        defaults == client.req_opts
    IN  /\ \A b \in {<<K_params, QUERY>>, <<K_headers, HEADER>>, <<K_cookies, COOKIE>>} :
             b[1] \in DOMAIN defaults \ keys =>
               /\ b[1] \in DOMAIN sent
               /\ sent[b[1]] =
                    Dict(Update(defaults[b[1]].f,
                                Collected(models.m, op.parameters, call.f, b[2])))
        /\ \A key \in (DOMAIN defaults \ keys) \ {K_params, K_headers, K_cookies} :
             \/ key = K_json /\ body # None
             \/ key \in DOMAIN sent /\ sent[key] = defaults[key]

(***************************************************************************)
(* core.py: BaseClient, the client class built from a document and its     *)
(* instances.  A namespace (the attributes of the class, of a SubApi, of   *)
(* an instance, of a SubApiProxy) is a function from attribute names to    *)
(* values.                                                                 *)
(***************************************************************************)
IsClass(cls) == "k" \in DOMAIN cls /\ cls.k = "class"

\* hasattr(cls, name)
HasAttr(cls, name) == name \in DOMAIN cls.attrs

\* Operation.add_client_method: the generated function is set on the target
\* under the snake-case operation id
add_client_method(self, operation_id, target) ==
  Put(target, camel_to_snake(operation_id), [k |-> "function", op |-> self])

\* the body of the loop of _collect_operations from the i-th operation of the
\* document on: the class, or the exception that ended the loop
RECURSIVE CollectFrom(_, _)
CollectFrom(cls, i) ==
  IF i > Len(cls.spec.paths) THEN cls
  ELSE
    Let(cls.spec.paths[i], LAMBDA entry :
      IF ~ Has(entry.op_spec, "operationId") THEN CollectFrom(cls, i + 1)
      ELSE
        Let(Operation_init(entry.path, entry.method, entry.op_spec, cls.spec,
                           cls.available_types),
            LAMBDA operation :
          IF IsRaise(operation) THEN operation
          ELSE IF entry.op_spec.operationId \in DOMAIN cls.operations
            THEN Raise("NameError", "name 'self' is not defined")
          ELSE
            LET operation_id == entry.op_spec.operationId
                operations == Put(cls.operations, operation_id, operation)
                tags == IF Has(entry.op_spec, "tags") THEN entry.op_spec.tags ELSE <<>>
            IN  IF tags # <<>>
                  THEN
                    LET target_name == camel_to_snake(tags[1])
                        fresh == ~ HasAttr(cls, target_name)
                        target == IF fresh THEN [k |-> "SubApi", attrs |-> NoEntries]
                                  ELSE cls.attrs[target_name]
                    IN  CollectFrom(
                          [cls EXCEPT
                             !.operations = operations,
                             !.sub_apis = IF fresh THEN Append(@, target_name) ELSE @,
                             !.attrs = Put(@, target_name,
                                           [target EXCEPT
                                              !.attrs = add_client_method(
                                                          operation, operation_id, @)])],
                          i + 1)
                  ELSE
                    CollectFrom(
                      [cls EXCEPT
                         !.operations = operations,
                         !.attrs = add_client_method(operation, operation_id, @)],
                      i + 1)))

_collect_operations(cls) ==
  CollectFrom([cls EXCEPT !.operations = NoEntries, !.sub_apis = <<>>], 1)

\* the attributes subclass_from_spec sets from the keys of the document
SpecAttrs(spec) ==
  [name \in {<<"p","a","t","h","s">>, <<"o","p","e","n","a","p","i">>,
             <<"s","e","r","v","e","r","s">>}
            \cup (IF Has(spec, "info") THEN {<<"i","n","f","o">>} ELSE {}) |->
     [k |-> "spec"]]

BaseClient_subclass_from_spec(spec, available_types) ==
  IF ~ ({"openapi", "info", "paths"} \subseteq DOMAIN spec)
    THEN Raise("ValueError", "Invaliad openapi document")
  ELSE _collect_operations([k |-> "class", spec |-> spec,
                            available_types |-> available_types,
                            operations |-> NoEntries, sub_apis |-> <<>>,
                            attrs |-> SpecAttrs(spec)])

\* SubApiProxy.__init__: every function of the SubApi bound to the client
SubApiProxy(sub_api, _client) ==
  [k |-> "SubApiProxy", client |-> _client,
   attrs |-> [func_name \in DOMAIN sub_api.attrs |->
                [k |-> "method", self |-> _client, func |-> sub_api.attrs[func_name]]]]

\* BaseClient.__init__ of the instance numbered self
BaseClient_init(cls, self, requestor, server) ==
  [requestor |-> IF requestor = None THEN [k |-> "Session"] ELSE requestor,
   server |-> server,
   attrs |-> [sub_api \in {cls.sub_apis[j] : j \in DOMAIN cls.sub_apis} |->
                SubApiProxy(cls.attrs[sub_api], self)]]

(***************************************************************************)
(* The client class and its instances as a state machine.                  *)
(***************************************************************************)
MaxPaths == 2

MaxClients == 2

W_pets == <<"p","e","t","s">>

W_store == <<"s","t","o","r","e">>

W_listPets == <<"l","i","s","t","P","e","t","s">>

W_getPet == <<"g","e","t","P","e","t">>

\* an operation of the document: with or without operationId, with or
\* without tags
TaggedOpSpecs ==
  LET plain == [responses |-> <<[status |-> S_200]>>]
      with_id == {plain} \cup {plain @@ [operationId |-> id] : id \in {W_listPets, W_getPet}}
  IN  with_id \cup {o @@ [tags |-> <<tag>>] : o \in with_id, tag \in {W_pets, W_store}}

Methods == <<"get", "post", "put", "delete">>

RECURSIVE PathLists(_)
PathLists(n) ==
  IF n = 0 THEN {<<>>}
  ELSE {Append(paths, [path |-> <<[lit |-> "/pets"]>>, method |-> Methods[n],
                       op_spec |-> op_spec]) :
          paths \in PathLists(n - 1), op_spec \in TaggedOpSpecs}

ClientDocuments ==
  LET body == {[schemas |-> <<>>, openapi |-> "3.0.0", paths |-> paths] :
                 paths \in UNION {PathLists(n) : n \in 1..MaxPaths}}
  IN  body \cup {d @@ [info |-> "pets"] : d \in body}

Requestors == {None, [k |-> "Requestor"]}

OtherServer == [url |-> <<[lit |-> "https://other.example"]>>, variables |-> NoEntries]

subclass_from_spec ==
  /\ klass = None
  /\ \E built \in {add_types_to_module(doc)} :
       klass' = IF IsRaise(built) THEN built
                ELSE BaseClient_subclass_from_spec(doc, RealizedTypes(built.m))
  /\ UNCHANGED <<doc, models, op, client, pc, invocation, codec, resolved, instances,
                 threads>>

NewClient ==
  /\ IsClass(klass)
  /\ Len(instances) < MaxClients
  /\ \E requestor \in Requestors, server \in {PlainServer, OtherServer} :
       instances' = Append(instances,
                           BaseClient_init(klass, Len(instances) + 1, requestor, server))
  /\ UNCHANGED <<doc, models, op, client, pc, invocation, codec, resolved, klass, threads>>

set_requestor ==
  /\ IsClass(klass)
  /\ \E self \in DOMAIN instances, r \in Requestors \ {None} :
       /\ instances' = [instances EXCEPT ![self].requestor = r]
       /\ klass' = _collect_operations(klass)
  /\ UNCHANGED <<doc, models, op, client, pc, invocation, codec, resolved, threads>>

set_server ==
  /\ IsClass(klass)
  /\ \E self \in DOMAIN instances, s \in {PlainServer, OtherServer} :
       /\ instances' = [instances EXCEPT ![self].server = s]
       /\ klass' = _collect_operations(klass)
  /\ UNCHANGED <<doc, models, op, client, pc, invocation, codec, resolved, threads>>

InitClient ==
  /\ doc \in ClientDocuments
  /\ client = [server |-> PlainServer, req_opts |-> NoEntries]
  /\ InitInvocation

NextClient == subclass_from_spec \/ NewClient \/ set_requestor \/ set_server

SpecClient == InitClient /\ [][NextClient]_vars

\* the operations of the document that have the operationId id, in encounter
\* order
OperationsWithId(id) ==
  SelectSeq(doc.paths,
            LAMBDA entry : Has(entry.op_spec, "operationId")
                             /\ entry.op_spec.operationId = id)

\* C14: once a document that has openapi, info and paths is built, there is
\* a client class; its operations table has exactly the operation ids of the
\* document, an id that one operation has maps to that operation, and an id
\* that several operations share maps to the list of all of them in
\* encounter order.  Operations without an id are in no entry.
C14_DuplicateIdsCollected ==
  (klass # None /\ Has(doc, "info")) =>
    /\ IsClass(klass)
    /\ DOMAIN klass.operations =
         {doc.paths[i].op_spec.operationId :
            i \in {j \in DOMAIN doc.paths : Has(doc.paths[j].op_spec, "operationId")}}
    /\ \A id \in DOMAIN klass.operations :
         LET same == OperationsWithId(id)
             built(entry) == Operation_init(entry.path, entry.method, entry.op_spec,
                                            doc, klass.available_types)
         IN  klass.operations[id] =
               IF Len(same) > 1 THEN [j \in DOMAIN same |-> built(same[j])]
               ELSE built(same[1])

\* the tagged operations of the document that have an id
TaggedOperations ==
  {i \in DOMAIN doc.paths :
     Has(doc.paths[i].op_spec, "operationId") /\ Has(doc.paths[i].op_spec, "tags")}

\* the instance numbered self has, under the sub-namespace of the tag, the
\* method of the i-th operation of the document bound to itself
ExposesBound(self, i) ==
  LET sub_api == camel_to_snake(doc.paths[i].op_spec.tags[1])
      op_name == camel_to_snake(doc.paths[i].op_spec.operationId)
  IN  /\ sub_api \in DOMAIN instances[self].attrs
      /\ op_name \in DOMAIN instances[self].attrs[sub_api].attrs
      /\ instances[self].attrs[sub_api].attrs[op_name].self = self

\* C18: whatever set_server and set_requestor calls were made, the operations
\* table and the list of sub-namespaces of the client class are those of the
\* initial build, and every instance has every tagged operation as a method
\* bound to itself under the sub-namespace of its tag.
C18_ReconfigurationKeepsClass ==
  IsClass(klass) =>
    Let(BaseClient_subclass_from_spec(doc, klass.available_types), LAMBDA built :
      /\ klass.operations = built.operations
      /\ klass.sub_apis = built.sub_apis
      /\ \A self \in DOMAIN instances : \A i \in TaggedOperations : ExposesBound(self, i))

(***************************************************************************)
(* core.py: invocations of one operation of one client at the same time.   *)
(* Each invocation has the locals of Operation.__call__ and of the closure *)
(* f; the operation, the registry and the client are shared.               *)
(***************************************************************************)
MaxThreads == 2

\* the local variables of an invocation that has not started
IdleThread ==
  [pc |-> "idle", call |-> None, seen |-> None, collected |-> None, kwargs |-> None,
   request |-> None, response |-> None, result |-> None]

\* buckets that every invocation reads from the first invocation that has any
Buckets_shared(ts, t) ==
  ts[CHOOSE u \in DOMAIN ts :
       /\ ts[u].pc \in {"collected", "merged"}
       /\ \A v \in DOMAIN ts : ts[v].pc \in {"collected", "merged"} => u <= v].collected

\* path_params, params, headers, cookies, body and the keyword arguments left:
\* locals of the closure f, one set per invocation
Buckets(ts, t) == ts[t].collected

ConcurrentDocuments ==
  {[schemas |-> <<[name |-> N_child, desc |-> ChildSchema]>>,
    path |-> <<[lit |-> "/items/"], [ph |-> W_itemId]>>, method |-> "get",
    op_spec |-> [parameters |->
                   <<[name |-> W_itemId, in |-> PATH, schema |-> [type |-> "string"]],
                     [name |-> W_pageSize, in |-> QUERY, schema |-> [type |-> "number"]],
                     XTraceSpec, SidSpec>>,
                 responses |-> <<[status |-> S_200, schema |-> Ref(N_child)]>>]]}

ConcurrentCalls ==
  {(L_item_id :> Str(<<"42">>) @@ L_page_size :> Num("10")),
   (L_item_id :> Str(<<"7">>) @@ K_timeout :> Num("5") @@ L_x_trace :> Str(<<"t">>)),
   (L_page_size :> Num("10"))}

ConcurrentAnswers ==
  {[status_code |-> 200, headers |-> [h \in {"Content-Length"} |-> <<"1","7">>],
    body |-> ChildPayload],
   Raise("ConnectionError", "transport")}

\* Operation.__call__: the invocation starts and reads self._call
Enter ==
  \E t \in DOMAIN threads :
    /\ threads[t].pc = "idle"
    /\ \E kwargs \in ConcurrentCalls :
         threads' = [threads EXCEPT ![t] = [@ EXCEPT !.pc = "entered",
                                                      !.call = Kwargs(kwargs),
                                                      !.seen = op._call]]
    /\ UNCHANGED <<doc, models, op, client, pc, invocation, codec, resolved, klass,
                   instances>>

\* Operation.__call__: self._call = self._gen_call() when none was seen
Generate ==
  \E t \in DOMAIN threads :
    /\ threads[t].pc = "entered"
    /\ op' = IF threads[t].seen = None
               THEN [op EXCEPT !._call = [k |-> "function", by |-> t]]
               ELSE op
    /\ threads' = [threads EXCEPT ![t] = [@ EXCEPT !.pc = "collecting", !.seen = None]]
    /\ UNCHANGED <<doc, models, client, pc, invocation, codec, resolved, klass, instances>>

\* f: "collect api params"
Collect ==
  \E t \in DOMAIN threads :
    /\ threads[t].pc = "collecting"
    /\ \E collected \in
           {CollectApiParams(models.m, op.parameters, 1,
              [kwargs |-> threads[t].call.f, path_params |-> NoEntries,
               params |-> NoEntries, headers |-> NoEntries, cookies |-> NoEntries,
               body |-> None])} :
         threads' = [threads EXCEPT ![t] =
                       IF IsRaise(collected)
                         THEN [@ EXCEPT !.pc = "done", !.result = collected]
                         ELSE [@ EXCEPT !.pc = "collected", !.collected = collected]]
    /\ UNCHANGED <<doc, models, op, client, pc, invocation, codec, resolved, klass,
                   instances>>

\* f: "collect internal params", the three buckets merged into kwargs, the body
Merge ==
  \E t \in DOMAIN threads :
    /\ threads[t].pc = "collected"
    /\ \E mine \in {Buckets(threads, t)} :
       \E k1 \in {MergeBucket(CollectInternalParams(mine.kwargs), K_params, mine.params)} :
       \E k2 \in {IF IsRaise(k1) THEN k1 ELSE MergeBucket(k1.f, K_headers, mine.headers)} :
       \E k3 \in {IF IsRaise(k2) THEN k2 ELSE MergeBucket(k2.f, K_cookies, mine.cookies)} :
       \E k4 \in {IF IsRaise(k3) THEN k3
                  ELSE IF Truthy(mine.body) THEN Kwargs(Put(k3.f, K_json, mine.body))
                  ELSE k3} :
         threads' = [threads EXCEPT ![t] =
                       IF IsRaise(k4) THEN [@ EXCEPT !.pc = "done", !.result = k4]
                       ELSE [@ EXCEPT !.pc = "merged", !.kwargs = k4]]
    /\ UNCHANGED <<doc, models, op, client, pc, invocation, codec, resolved, klass,
                   instances>>

\* f: the defaults of the client, the URL, and the request handed to the
\* transport
Send ==
  \E t \in DOMAIN threads :
    /\ threads[t].pc = "merged"
    /\ \E url \in {Operation_url(op, client.server, Buckets(threads, t).path_params)} :
         threads' = [threads EXCEPT ![t] =
                       IF IsRaise(url) THEN [@ EXCEPT !.pc = "done", !.result = url]
                       ELSE [@ EXCEPT !.pc = "sent",
                                      !.request =
                                        [k |-> "request", method |-> op.method,
                                         url |-> url.pieces,
                                         kwargs |-> SetDefaults(threads[t].kwargs.f,
                                                                client.req_opts)]]]
    /\ UNCHANGED <<doc, models, op, client, pc, invocation, codec, resolved, klass,
                   instances>>

\* client._requestor.request returns or raises
Answer ==
  \E t \in DOMAIN threads :
    /\ threads[t].pc = "sent"
    /\ \E answer \in ConcurrentAnswers :
         threads' = [threads EXCEPT ![t] =
                       IF IsRaise(answer) THEN [@ EXCEPT !.pc = "done", !.result = answer]
                       ELSE [@ EXCEPT !.pc = "answered", !.response = answer]]
    /\ UNCHANGED <<doc, models, op, client, pc, invocation, codec, resolved, klass,
                   instances>>

\* f from the answer of the transport to its end
Finish ==
  \E t \in DOMAIN threads :
    /\ threads[t].pc = "answered"
    /\ \E decoded \in {DecodeResponse(op, models.m, threads[t].response)} :
         threads' = [threads EXCEPT ![t] = [@ EXCEPT !.pc = "done", !.result = decoded]]
    /\ UNCHANGED <<doc, models, op, client, pc, invocation, codec, resolved, klass,
                   instances>>

InitConcurrent ==
  /\ doc \in ConcurrentDocuments
  /\ models = add_types_to_module(doc)
  /\ op = [_call |-> None]
            @@ Operation_init(doc.path, doc.method, doc.op_spec, doc, RealizedTypes(models.m))
  /\ client \in {c \in Clients : c.req_opts # NoEntries}
  /\ pc = "idle"
  /\ call = None /\ request = None /\ ncalls = 0 /\ response = None /\ result = None
  /\ codec = CodecIdle
  /\ resolved = None /\ klass = None /\ instances = <<>>
  /\ threads = [t \in 1..MaxThreads |-> IdleThread]

NextConcurrent == Enter \/ Generate \/ Collect \/ Merge \/ Send \/ Answer \/ Finish

SpecConcurrent == InitConcurrent /\ [][NextConcurrent]_vars

\* what the invocation of thread t hands to the transport, or raises before
\* that, when it runs alone
Alone(t) == BuildRequest(op, models.m, client, threads[t].call.f)

====
